---- MODULE Spec2Model ----
(***************************************************************************)
(* Model of the school chatbot core (src/app.py): the knowledge base       *)
(* loader, the FAQ resolver (similarity + keyword matching), the AI        *)
(* responder with its failure classification, and get_response composing   *)
(* them.  Strings are sequences of one-character strings; similarity       *)
(* scores are exact rationals <<numerator, denominator>>.                  *)
(***************************************************************************)
EXTENDS Integers, Sequences, FiniteSets, TLC

(* ---------------- bounds ---------------- *)
MaxEntries == 2
MaxCalls == 2
MaxWords == 2

(* ---------------- rationals (float scores 2*M/T, 0.6, 0.8) ------------- *)
Rat(n, d) == <<n, d>>
RatGt(x, y) == x[1] * y[2] > y[1] * x[2]
RatGe(x, y) == x[1] * y[2] >= y[1] * x[2]
RatEq(x, y) == x[1] * y[2] = y[1] * x[2]
RatMax(x, y) == IF RatGt(y, x) THEN y ELSE x

Zero == Rat(0, 1)
DefaultThreshold == Rat(3, 5)
KeywordBoost == Rat(4, 5)

(* ---------------- strings ---------------- *)
LowerChar(ch) == IF ch = "A" THEN "a"
                 ELSE IF ch = "B" THEN "b"
                 ELSE IF ch = "C" THEN "c"
                 ELSE ch

Lower(s) == [i \in 1..Len(s) |-> LowerChar(s[i])]

IsWhitespace(ch) == ch = " "

RECURSIVE LStrip(_)
LStrip(s) == IF s # <<>> /\ IsWhitespace(Head(s)) THEN LStrip(Tail(s)) ELSE s

RECURSIVE RStrip(_)
RStrip(s) == IF s # <<>> /\ IsWhitespace(s[Len(s)])
             THEN RStrip(SubSeq(s, 1, Len(s) - 1))
             ELSE s

Strip(s) == RStrip(LStrip(s))

\* keyword in question: literal substring test
IsSubstring(k, q) ==
    \E off \in 0..(Len(q) - Len(k)) : SubSeq(q, off + 1, off + Len(k)) = k

(* ---------------- SequenceMatcher(None, a, b).ratio() ------------------ *)
\* length of the common run of a[i..ahi] and b[j..bhi] starting at i, j
RECURSIVE RunLen(_, _, _, _, _, _)
RunLen(a, b, i, j, ahi, bhi) ==
    IF i > ahi \/ j > bhi THEN 0
    ELSE IF a[i] # b[j] THEN 0
    ELSE 1 + RunLen(a, b, i + 1, j + 1, ahi, bhi)

\* longest matching block of a[alo..ahi], b[blo..bhi]: the longest, of those
\* the one starting earliest in a, of those the one starting earliest in b
FindLongestMatch(a, b, alo, ahi, blo, bhi) ==
    LET cands == (alo..ahi) \X (blo..bhi)
        size(p) == RunLen(a, b, p[1], p[2], ahi, bhi)
        hits == {p \in cands : size(p) > 0}
    IN  IF hits = {} THEN <<alo, blo, 0>>
        ELSE LET best == CHOOSE p \in hits :
                            \A r \in hits :
                               \/ size(p) > size(r)
                               \/ /\ size(p) = size(r)
                                  /\ \/ p[1] < r[1]
                                     \/ p[1] = r[1] /\ p[2] <= r[2]
             IN  <<best[1], best[2], size(best)>>

\* sum of the sizes of get_matching_blocks(): longest block, then recursively
\* the pieces to its left and to its right
RECURSIVE MatchCount(_, _, _, _, _, _)
MatchCount(a, b, alo, ahi, blo, bhi) ==
    LET m == FindLongestMatch(a, b, alo, ahi, blo, bhi)
        i == m[1]
        j == m[2]
        k == m[3]
    IN  IF k = 0 THEN 0
        ELSE k
             + (IF alo < i /\ blo < j
                THEN MatchCount(a, b, alo, i - 1, blo, j - 1) ELSE 0)
             + (IF i + k <= ahi /\ j + k <= bhi
                THEN MatchCount(a, b, i + k, ahi, j + k, bhi) ELSE 0)

Ratio(a, b) ==
    IF Len(a) + Len(b) = 0 THEN Rat(1, 1)
    ELSE Rat(2 * MatchCount(a, b, 1, Len(a), 1, Len(b)), Len(a) + Len(b))

similarity(a, b) == Ratio(Lower(a), Lower(b))

(* ---------------- one iteration of the resolver loop ------------------- *)
\* lines 56-60: raise the score to the best keyword similarity
RECURSIVE KeywordSimilarity(_, _, _)
KeywordSimilarity(score, keywords, question_lower) ==
    IF keywords = <<>> THEN score
    ELSE LET ks == similarity(question_lower, Lower(Head(keywords)))
         IN  KeywordSimilarity(IF RatGt(ks, score) THEN ks ELSE score,
                               Tail(keywords), question_lower)

\* lines 63-66: a keyword contained in the question lifts the score to 0.8
RECURSIVE KeywordContainsNoBoost(_, _, _)
KeywordContainsNoBoost(score, keywords, question_lower) ==
    IF keywords = <<>> THEN score
    ELSE KeywordContainsNoBoost(score, Tail(keywords), question_lower)

RECURSIVE KeywordContains(_, _, _)
KeywordContains(score, keywords, question_lower) ==
    IF keywords = <<>> THEN score
    ELSE KeywordContains(
             IF IsSubstring(Lower(Head(keywords)), question_lower)
             THEN RatMax(score, KeywordBoost) ELSE score,
             Tail(keywords), question_lower)

EntryScore(faq, question_lower) ==
    LET s0 == similarity(question_lower, faq.question)
        s1 == IF faq.hasKeywords
              THEN KeywordSimilarity(s0, faq.keywords, question_lower) ELSE s0
    IN  IF faq.hasKeywords
        THEN KeywordContains(s1, faq.keywords, question_lower) ELSE s1

\* line 68: the entry replaces the current best match
IsBetterNoThreshold(similarity_score, best_similarity, threshold) ==
    RatGt(similarity_score, best_similarity)

IsBetterNonStrict(similarity_score, best_similarity, threshold) ==
    RatGe(similarity_score, best_similarity) /\ RatGe(similarity_score, threshold)

IsBetter(similarity_score, best_similarity, threshold) ==
    RatGt(similarity_score, best_similarity) /\ RatGe(similarity_score, threshold)

(* ---------------- knowledge source and knowledge base ------------------ *)
Entry(q, a, hk, ks) ==
    [question |-> q, answer |-> a, hasKeywords |-> hk, keywords |-> ks]

EntryPool ==
    { Entry(<<"a", "b">>, <<"x">>, FALSE, <<>>),
      Entry(<<"A", "b">>, <<"y">>, FALSE, <<>>),
      Entry(<<"c">>, <<>>, FALSE, <<>>),
      Entry(<<"a", "a">>, <<"z">>, TRUE, << <<"C">> >>),
      Entry(<<"c", "c">>, <<"y">>, TRUE, << <<"a", "b">>, <<"b">> >>),
      Entry(<<"b">>, <<"x">>, TRUE, <<>>) }

SeqsUpTo(S, n) == UNION {[1..k -> S] : k \in 0..n}

\* a parsed JSON document: an object or not, with or without "faqs",
\* whose "faqs" value is a list or not
Doc(isDict, hasFaqs, faqsIsList, faqs) ==
    [isDict |-> isDict, hasFaqs |-> hasFaqs, faqsIsList |-> faqsIsList,
     faqs |-> faqs]

EmptyKB == Doc(TRUE, TRUE, TRUE, <<>>)

WellFormedDocs == {Doc(TRUE, TRUE, TRUE, f) : f \in SeqsUpTo(EntryPool, MaxEntries)}

MalformedDocs == { Doc(FALSE, FALSE, FALSE, <<>>),
                   Doc(TRUE, FALSE, FALSE, <<>>),
                   Doc(TRUE, TRUE, FALSE, <<>>) }

Source(state, doc) == [state |-> state, doc |-> doc]

Sources ==
    {Source(s, EmptyKB) : s \in {"absent", "unreadable", "unparseable"}}
    \cup {Source("parsed", d) : d \in WellFormedDocs \cup MalformedDocs}

\* the knowledge sources of the runs that explore the AI responder
AiSources ==
    { Source("absent", EmptyKB),
      Source("parsed", Doc(TRUE, TRUE, TRUE,
                           << Entry(<<"a", "b">>, <<"x">>, FALSE, <<>>) >>)) }

ConcSources ==
    { Source("parsed", Doc(TRUE, TRUE, TRUE, f)) :
        f \in { << Entry(<<"a", "b">>, <<"x">>, FALSE, <<>>),
                   Entry(<<"A", "b">>, <<"y">>, FALSE, <<>>) >>,
                << Entry(<<"c">>, <<>>, FALSE, <<>>),
                   Entry(<<"a", "a">>, <<"z">>, TRUE, << <<"C">> >>) >> } }

(* ---------------- inputs ---------------- *)
Questions == { <<"a", "b">>, <<"b", "C">>, <<"c">>, <<"A">> }
ConcQuestions == { <<"a", "b">>, <<"b", "C">> }
Thresholds == { Rat(0, 1), Rat(3, 5), Rat(4, 5), Rat(1, 1) }
ApiKeys == {"unset", "empty", "set"}
ConcApiKeys == {"empty", "set"}

\* completion texts returned by the API; <<>> wraps "content is None"
Contents == { << <<" ", "o", "k", " ">> >>, << <<"o", "k">> >>, <<>> }
ConcContents == { << <<"o", "k">> >> }

Words == {"quota", "QUOTA", "api_key", "authentication", "network",
          "connection", "model", "timeout"}
ErrorTypes == {"APIError", "RateLimitError"}
Messages == SeqsUpTo(Words, MaxWords)
FewMessages == { <<"network">>, <<"model", "QUOTA">> }

LowerWord(w) == IF w = "QUOTA" THEN "quota" ELSE w

\* "kw" in str(e).lower()
Mentions(msg, kw) == \E n \in 1..Len(msg) : LowerWord(msg[n]) = kw

(* ---------------- results and failure classification ------------------ *)
Result(kind, text, err) == [kind |-> kind, text |-> text, err |-> err]

NoResult == Result("none", <<>>, "")
Apology == Result("apology", <<>>, "")
FallbackKinds == {"quota", "auth", "network", "model", "generic"}

\* lines 111-120: the except handler's if/elif chain
ClassifyNetworkFirst(msg, errType) ==
    IF Mentions(msg, "network") \/ Mentions(msg, "connection")
    THEN Result("network", <<>>, "")
    ELSE IF Mentions(msg, "quota") THEN Result("quota", <<>>, "")
    ELSE IF Mentions(msg, "api_key") \/ Mentions(msg, "authentication")
    THEN Result("auth", <<>>, "")
    ELSE IF Mentions(msg, "model") THEN Result("model", <<>>, errType)
    ELSE Result("generic", <<>>, errType)

Classify(msg, errType) ==
    IF Mentions(msg, "quota") THEN Result("quota", <<>>, "")
    ELSE IF Mentions(msg, "api_key") \/ Mentions(msg, "authentication")
    THEN Result("auth", <<>>, "")
    ELSE IF Mentions(msg, "network") \/ Mentions(msg, "connection")
    THEN Result("network", <<>>, "")
    ELSE IF Mentions(msg, "model") THEN Result("model", <<>>, errType)
    ELSE Result("generic", <<>>, errType)

\* line 79: not api_key
KeyMissingOnlyUnset(api_key) == api_key = "unset"

KeyMissing(api_key) == api_key \in {"unset", "empty"}

\* line 127: if kb_answer (None and "" are both false)
Truthy(kb_answer) == kb_answer # <<>> /\ kb_answer[1] # <<>>

(* ---------------- state ---------------- *)
VARIABLES source,   \* the knowledge source file as found at startup
          apiKey,   \* OPENAI_API_KEY in the environment
          phase,    \* "start", "running", or "crashed" (constructor raised)
          kb,       \* chatbot.knowledge_base
          calls     \* per request: position and locals of the call in flight

vars == <<source, apiKey, phase, kb, calls>>

Calls == 1..MaxCalls

IdleCall ==
    [pc |-> "idle", op |-> "none", question |-> <<>>, threshold |-> Zero,
     i |-> 0, best_match |-> 0, best_similarity |-> Zero, kb_answer |-> <<>>,
     aiCalls |-> 0, requests |-> 0, errType |-> "", errMsg |-> <<>>,
     result |-> NoResult, exc |-> ""]

\* lines 29-39: the value load_knowledge_base returns
LoadKB(src) ==
    IF src.state \in {"absent", "unparseable"} THEN EmptyKB ELSE src.doc

\* line 51: self.knowledge_base.get("faqs", [])
Faqs(k) == IF k.hasFaqs THEN k.faqs ELSE <<>>

Iterable(k) == k.isDict /\ (k.hasFaqs => k.faqsIsList)

InitWith(srcs, keys) ==
    /\ source \in srcs
    /\ apiKey \in keys
    /\ phase = "start"
    /\ kb = EmptyKB
    /\ calls = [c \in Calls |-> IdleCall]

Init == InitWith(Sources, ApiKeys)

InitAi == InitWith(AiSources, ApiKeys)

InitConc == InitWith(ConcSources, ConcApiKeys)

(* ---------------- actions ---------------- *)
\* chatbot = SchoolChatbot(): open() raising anything but FileNotFoundError
\* leaves the module without a chatbot
Load ==
    /\ phase = "start"
    /\ IF source.state = "unreadable"
       THEN phase' = "crashed" /\ kb' = kb
       ELSE phase' = "running" /\ kb' = LoadKB(source)
    /\ UNCHANGED <<source, apiKey, calls>>

Begin(c, op, q, th) ==
    /\ phase = "running"
    /\ calls[c].pc = "idle"
    /\ calls' = [calls EXCEPT ![c] =
                   [IdleCall EXCEPT !.pc = "search", !.op = op,
                                    !.question = q, !.threshold = th, !.i = 1]]
    /\ UNCHANGED <<source, apiKey, phase, kb>>

\* get_response(question): search_knowledge_base(question) with threshold 0.6
StartAnswer(c, q) == Begin(c, "answer", q, DefaultThreshold)

\* search_knowledge_base(question, threshold) called directly
StartResolve(c, q, th) == Begin(c, "resolve", q, th)

\* line 51 on a knowledge base that is no dict, or whose "faqs" is no list
SearchRaise(c) ==
    /\ calls[c].pc = "search"
    /\ ~Iterable(kb)
    /\ calls' = [calls EXCEPT ![c].pc = "raised",
                              ![c].exc = IF kb.isDict THEN "TypeError"
                                         ELSE "AttributeError"]
    /\ UNCHANGED <<source, apiKey, phase, kb>>

\* the loop body with best_match / best_similarity kept on the shared object
SearchStepShared(c) ==
    /\ calls[c].pc = "search"
    /\ Iterable(kb)
    /\ calls[c].i <= Len(Faqs(kb))
    /\ LET me == calls[c]
           score == EntryScore(Faqs(kb)[me.i], Lower(me.question))
           better == IsBetter(score, me.best_similarity, me.threshold)
       IN  calls' = [d \in Calls |->
                       IF d = c
                       THEN [me EXCEPT !.i = me.i + 1,
                                       !.best_match = IF better THEN me.i ELSE @,
                                       !.best_similarity = IF better THEN score ELSE @]
                       ELSE IF calls[d].pc = "search" /\ better
                       THEN [calls[d] EXCEPT !.best_match = me.i,
                                             !.best_similarity = score]
                       ELSE calls[d]]
    /\ UNCHANGED <<source, apiKey, phase, kb>>

\* lines 51-70: one iteration of the loop over the entries
SearchStep(c) ==
    /\ calls[c].pc = "search"
    /\ Iterable(kb)
    /\ calls[c].i <= Len(Faqs(kb))
    /\ LET me == calls[c]
           score == EntryScore(Faqs(kb)[me.i], Lower(me.question))
           better == IsBetter(score, me.best_similarity, me.threshold)
       IN  calls' = [calls EXCEPT ![c] =
                       [me EXCEPT !.i = me.i + 1,
                                  !.best_match = IF better THEN me.i ELSE @,
                                  !.best_similarity = IF better THEN score ELSE @]]
    /\ UNCHANGED <<source, apiKey, phase, kb>>

\* line 72: return best_match["answer"] if best_match else None
SearchReturn(c) ==
    /\ calls[c].pc = "search"
    /\ Iterable(kb)
    /\ calls[c].i > Len(Faqs(kb))
    /\ LET me == calls[c]
           ans == IF me.best_match # 0
                  THEN << Faqs(kb)[me.best_match].answer >> ELSE <<>>
       IN  calls' = [calls EXCEPT ![c] =
                       IF me.op = "resolve"
                       THEN [me EXCEPT !.pc = "done", !.kb_answer = ans,
                                       !.result = IF ans = <<>> THEN NoResult
                                                  ELSE Result("faq", ans[1], "")]
                       ELSE [me EXCEPT !.pc = "searched", !.kb_answer = ans]]
    /\ UNCHANGED <<source, apiKey, phase, kb>>

\* lines 127-128
ReturnKbAnswer(c) ==
    /\ calls[c].pc = "searched"
    /\ Truthy(calls[c].kb_answer)
    /\ calls' = [calls EXCEPT ![c].pc = "done",
                              ![c].result = Result("faq", calls[c].kb_answer[1], "")]
    /\ UNCHANGED <<source, apiKey, phase, kb>>

\* line 131: get_ai_response is entered
CallAi(c) ==
    /\ calls[c].pc = "searched"
    /\ ~Truthy(calls[c].kb_answer)
    /\ calls' = [calls EXCEPT ![c].pc = "ai", ![c].aiCalls = @ + 1]
    /\ UNCHANGED <<source, apiKey, phase, kb>>

\* lines 78-81
AiNoKey(c) ==
    /\ calls[c].pc = "ai"
    /\ KeyMissing(apiKey)
    /\ calls' = [calls EXCEPT ![c].pc = "done", ![c].result = Apology]
    /\ UNCHANGED <<source, apiKey, phase, kb>>

\* lines 93-101: the request leaves
AiSend(c) ==
    /\ calls[c].pc = "ai"
    /\ ~KeyMissing(apiKey)
    /\ calls' = [calls EXCEPT ![c].pc = "request", ![c].requests = @ + 1]
    /\ UNCHANGED <<source, apiKey, phase, kb>>

\* lines 103-104; content None makes .strip() raise inside the try block
AiSuccess(c, content) ==
    /\ calls[c].pc = "request"
    /\ calls' = [calls EXCEPT ![c] =
                   IF content # <<>>
                   THEN [@ EXCEPT !.pc = "done",
                                  !.result = Result("ai", Strip(content[1]), "")]
                   ELSE [@ EXCEPT !.pc = "done",
                                  !.errType = "AttributeError",
                                  !.errMsg = <<"NoneType", "strip">>,
                                  !.result = Classify(<<"NoneType", "strip">>,
                                                      "AttributeError")]]
    /\ UNCHANGED <<source, apiKey, phase, kb>>

\* the handler issuing the request again instead of returning
AiErrorRetry(c, errType, msg) ==
    /\ calls[c].pc = "request"
    /\ calls[c].requests < 2
    /\ calls' = [calls EXCEPT ![c].requests = @ + 1,
                              ![c].errType = errType,
                              ![c].errMsg = msg]
    /\ UNCHANGED <<source, apiKey, phase, kb>>

\* lines 106-120: the request raised
AiError(c, errType, msg) ==
    /\ calls[c].pc = "request"
    /\ calls' = [calls EXCEPT ![c].pc = "done",
                              ![c].errType = errType,
                              ![c].errMsg = msg,
                              ![c].result = Classify(msg, errType)]
    /\ UNCHANGED <<source, apiKey, phase, kb>>

\* the call has returned (or raised) to its caller
Return(c) ==
    /\ calls[c].pc \in {"done", "raised"}
    /\ calls' = [calls EXCEPT ![c] = IdleCall]
    /\ UNCHANGED <<source, apiKey, phase, kb>>

\* one request at a time, over every knowledge source
Next ==
    \/ Load
    \/ \E q \in Questions : StartAnswer(1, q)
    \/ \E q \in Questions, th \in Thresholds : StartResolve(1, q, th)
    \/ SearchRaise(1)
    \/ SearchStep(1)
    \/ SearchReturn(1)
    \/ ReturnKbAnswer(1)
    \/ CallAi(1)
    \/ AiNoKey(1)
    \/ AiSend(1)
    \/ \E content \in Contents : AiSuccess(1, content)
    \/ \E t \in ErrorTypes, m \in FewMessages : AiError(1, t, m)
    \/ Return(1)

Spec == Init /\ [][Next]_vars

\* one get_response at a time, over every outcome of the API call
NextAi ==
    \/ Load
    \/ \E q \in Questions : StartAnswer(1, q)
    \/ SearchStep(1)
    \/ SearchReturn(1)
    \/ ReturnKbAnswer(1)
    \/ CallAi(1)
    \/ AiNoKey(1)
    \/ AiSend(1)
    \/ \E content \in Contents : AiSuccess(1, content)
    \/ \E t \in ErrorTypes, m \in Messages : AiError(1, t, m)
    \/ Return(1)

SpecAi == InitAi /\ [][NextAi]_vars

\* requests dispatched concurrently by the HTTP layer
NextConc ==
    \/ Load
    \/ \E c \in Calls, q \in ConcQuestions : StartAnswer(c, q)
    \/ \E c \in Calls : SearchStep(c)
    \/ \E c \in Calls : SearchReturn(c)
    \/ \E c \in Calls : ReturnKbAnswer(c)
    \/ \E c \in Calls : CallAi(c)
    \/ \E c \in Calls : AiNoKey(c)
    \/ \E c \in Calls : AiSend(c)
    \/ \E c \in Calls, content \in ConcContents : AiSuccess(c, content)
    \/ \E c \in Calls, m \in FewMessages : AiError(c, "APIError", m)
    \/ \E c \in Calls : Return(c)

SpecConc == InitConc /\ [][NextConc]_vars

(* ======================= properties ======================= *)
\* the search of call c has returned normally
Searched(c) == calls[c].pc \in {"searched", "ai", "request", "done"}

Indices == 1..Len(Faqs(kb))

\* the score of an entry, stated as a maximum over its components
ScoreParts(faq, q) ==
    {similarity(q, faq.question)}
    \cup (IF faq.hasKeywords
          THEN {similarity(q, faq.keywords[n]) : n \in 1..Len(faq.keywords)}
               \cup (IF \E n \in 1..Len(faq.keywords) :
                          IsSubstring(Lower(faq.keywords[n]), Lower(q))
                     THEN {KeywordBoost} ELSE {})
          ELSE {})

MaxScore(faq, q) ==
    LET parts == ScoreParts(faq, q)
    IN  CHOOSE x \in parts : \A y \in parts : RatGe(x, y)

\* the scores of the entries of the knowledge base for the question of call c
Scores(c) == [n \in Indices |-> MaxScore(Faqs(kb)[n], calls[c].question)]

\* entries whose score is maximal among the scores sc
MaximalOf(sc) == {n \in DOMAIN sc : \A m \in DOMAIN sc : RatGe(sc[n], sc[m])}

Least(S) == CHOOSE n \in S : \A m \in S : n <= m

\* the answer a question gets when resolved alone against the loaded base
ResolveAlone(c) ==
    LET sc == Scores(c)
    IN  IF \E n \in Indices : RatGe(sc[n], calls[c].threshold) /\ RatGt(sc[n], Zero)
        THEN << Faqs(kb)[Least(MaximalOf(sc))].answer >>
        ELSE <<>>

\* C1: whenever the resolver finds a matching entry, get_response returns
\* that entry's answer and get_ai_response is not invoked and no API request
\* is issued in that call, whatever the answer text is.
C1_MatchSkipsAi ==
    \A c \in Calls :
       (calls[c].op = "answer" /\ Searched(c) /\ calls[c].best_match # 0) =>
          /\ calls[c].aiCalls = 0
          /\ calls[c].requests = 0
          /\ calls[c].pc \in {"searched", "done"}
          /\ calls[c].pc = "done" =>
                calls[c].result =
                   Result("faq", Faqs(kb)[calls[c].best_match].answer, "")

\* C2 (as claimed): resolve returns none exactly when no entry's score
\* reaches the threshold; otherwise it returns the answer of an entry whose
\* score is maximal over all entries.
C2_NoneIffBelowThreshold ==
    \A c \in Calls :
       Searched(c) =>
          LET sc == Scores(c)
          IN  /\ (calls[c].kb_answer = <<>>) <=>
                    ~ \E n \in Indices : RatGe(sc[n], calls[c].threshold)
              /\ calls[c].kb_answer # <<>> =>
                    \E n \in MaximalOf(sc) :
                       calls[c].kb_answer = << Faqs(kb)[n].answer >>

\* C2 (amended): resolve returns none exactly when no entry has a score
\* that is greater than 0 and reaches the threshold; otherwise it returns
\* the answer of an entry whose score is maximal over all entries.
C2_NoneIffNoPositiveScoreAtThreshold ==
    \A c \in Calls :
       Searched(c) =>
          LET sc == Scores(c)
          IN  /\ (calls[c].kb_answer = <<>>) <=>
                    ~ \E n \in Indices : /\ RatGe(sc[n], calls[c].threshold)
                                         /\ RatGt(sc[n], Zero)
              /\ calls[c].kb_answer # <<>> =>
                    \E n \in MaximalOf(sc) :
                       calls[c].kb_answer = << Faqs(kb)[n].answer >>

\* a resolve returned an answer although an earlier, weaker entry had
\* already passed the threshold
C2_Witness ==
    \E c \in Calls :
       /\ calls[c].pc = "done" /\ calls[c].op = "resolve"
       /\ calls[c].best_match = 2
       /\ RatGe(Scores(c)[1], calls[c].threshold)
       /\ RatGt(Scores(c)[1], Zero)

\* C3: get_ai_response never raises and every path of get_response ends in
\* a matched FAQ answer or a returned text, never a propagated exception.
C3_AnswerNeverRaises ==
    \A c \in Calls :
       calls[c].op = "answer" =>
          /\ calls[c].pc # "raised"
          /\ calls[c].pc = "done" => calls[c].result.kind # "none"

\* C4: load never raises; for a source that is absent, unreadable,
\* unparseable or not of the shape {faqs: [entries]} it returns the empty
\* knowledge base, and every later resolve on it returns none without raising.
C4_LoadFallsBackToEmpty ==
    /\ phase # "crashed"
    /\ phase = "running" =>
          /\ (source.state # "parsed" \/ source.doc \in MalformedDocs) =>
                /\ kb = EmptyKB
                /\ \A c \in Calls : /\ calls[c].pc # "raised"
                                    /\ Searched(c) => calls[c].kb_answer = <<>>

\* C5 (as claimed): when two or more entries share the maximal score and
\* that score reaches the threshold, resolve returns the answer of the
\* first such entry in source order.
C5_FirstOfTiesWins ==
    \A c \in Calls :
       Searched(c) =>
          LET sc == Scores(c)
              ties == MaximalOf(sc)
          IN  (/\ Cardinality(ties) >= 2
               /\ RatGe(sc[Least(ties)], calls[c].threshold)) =>
                 /\ calls[c].best_match = Least(ties)
                 /\ calls[c].kb_answer = << Faqs(kb)[Least(ties)].answer >>

\* C5 (amended): when two or more entries share the maximal score and that
\* score is greater than 0 and reaches the threshold, resolve returns the
\* answer of the first such entry in source order.
C5_FirstOfPositiveTiesWins ==
    \A c \in Calls :
       Searched(c) =>
          LET sc == Scores(c)
              ties == MaximalOf(sc)
          IN  (/\ Cardinality(ties) >= 2
               /\ RatGe(sc[Least(ties)], calls[c].threshold)
               /\ RatGt(sc[Least(ties)], Zero)) =>
                 /\ calls[c].best_match = Least(ties)
                 /\ calls[c].kb_answer = << Faqs(kb)[Least(ties)].answer >>

\* two entries with different answers tie at a positive score that reaches
\* the threshold, and the search has returned
C5_Witness ==
    \E c \in Calls :
       /\ Searched(c)
       /\ Len(Faqs(kb)) >= 2
       /\ {1, 2} \subseteq MaximalOf(Scores(c))
       /\ Faqs(kb)[1].answer # Faqs(kb)[2].answer
       /\ RatGt(Scores(c)[1], Zero)
       /\ RatGe(Scores(c)[1], calls[c].threshold)

\* C6: the fallback string is that of the first category, in the order
\* quota, authentication, network, model, whose keyword occurs in the
\* lower-cased error message, and the generic one with the error kind name
\* when none occurs.
C6_ClassificationOrder ==
    \A c \in Calls :
       (calls[c].pc = "done" /\ calls[c].errType # "") =>
          LET low == {LowerWord(calls[c].errMsg[n]) : n \in 1..Len(calls[c].errMsg)}
              quota == "quota" \in low
              auth == low \cap {"api_key", "authentication"} # {}
              net == low \cap {"network", "connection"} # {}
              model == "model" \in low
              r == calls[c].result
          IN  /\ quota => r = Result("quota", <<>>, "")
              /\ (~quota /\ auth) => r = Result("auth", <<>>, "")
              /\ (~quota /\ ~auth /\ net) => r = Result("network", <<>>, "")
              /\ (~quota /\ ~auth /\ ~net /\ model) =>
                    r = Result("model", <<>>, calls[c].errType)
              /\ (~quota /\ ~auth /\ ~net /\ ~model) =>
                    r = Result("generic", <<>>, calls[c].errType)

\* an error mentioning both the network and (in upper case) the quota was
\* classified
C6_Witness ==
    \E c \in Calls :
       /\ calls[c].pc = "done"
       /\ calls[c].errMsg = <<"network", "QUOTA">>
       /\ calls[c].result.kind = "quota"

\* C7: an entry with a keyword whose lower-cased form is a substring of the
\* lower-cased question scores at least 0.8, so for every threshold not
\* above 0.8 resolve returns an answer, and that entry's answer when it is
\* the only entry.
C7_KeywordSubstringMatches ==
    \A c \in Calls :
       Searched(c) =>
          \A n \in Indices :
             LET faq == Faqs(kb)[n]
             IN  (/\ faq.hasKeywords
                  /\ \E k \in 1..Len(faq.keywords) :
                        IsSubstring(Lower(faq.keywords[k]), Lower(calls[c].question))) =>
                    /\ RatGe(EntryScore(faq, Lower(calls[c].question)), KeywordBoost)
                    /\ RatGe(KeywordBoost, calls[c].threshold) =>
                          /\ calls[c].kb_answer # <<>>
                          /\ Len(Faqs(kb)) = 1 =>
                                calls[c].kb_answer = << faq.answer >>

\* the only entry matched through an upper-case keyword contained in the
\* question although no similarity reaches the threshold 0.8
C7_Witness ==
    \E c \in Calls :
       /\ Searched(c)
       /\ Len(Faqs(kb)) = 1
       /\ Faqs(kb)[1].hasKeywords
       /\ \E k \in 1..Len(Faqs(kb)[1].keywords) :
             /\ IsSubstring(Lower(Faqs(kb)[1].keywords[k]), Lower(calls[c].question))
             /\ Faqs(kb)[1].keywords[k] # Lower(Faqs(kb)[1].keywords[k])
       /\ calls[c].threshold = KeywordBoost
       /\ ~RatGe(similarity(calls[c].question, Faqs(kb)[1].question), KeywordBoost)
       /\ calls[c].kb_answer = << Faqs(kb)[1].answer >>

\* C8: with no API credential configured, get_ai_response returns the fixed
\* apology and issues no request; with an empty knowledge base get_response
\* therefore returns the apology.
C8_FailClosedWithoutCredential ==
    apiKey \in {"unset", "empty"} =>
       \A c \in Calls :
          /\ calls[c].requests = 0
          /\ calls[c].pc # "request"
          /\ (calls[c].pc = "done" /\ calls[c].aiCalls > 0) =>
                calls[c].result = Apology
          /\ (calls[c].pc = "done" /\ calls[c].op = "answer" /\ kb = EmptyKB) =>
                calls[c].result = Apology

\* get_response on an empty knowledge base returned under an empty
\* credential
C8_Witness ==
    \E c \in Calls :
       /\ apiKey = "empty"
       /\ kb = EmptyKB
       /\ calls[c].pc = "done" /\ calls[c].op = "answer"
       /\ calls[c].aiCalls = 1
       /\ calls[c].result = Apology

\* C9: every get_response call issues at most one API request, exactly one
\* when the question has no local match and a credential is configured; a
\* failed attempt returns a classified fallback without a second request.
C9_NoRetries ==
    \A c \in Calls :
       /\ calls[c].requests <= 1
       /\ (/\ calls[c].pc = "done" /\ calls[c].op = "answer"
           /\ calls[c].best_match = 0
           /\ apiKey = "set") => calls[c].requests = 1
       /\ calls[c].errType # "" =>
             /\ calls[c].pc = "done"
             /\ calls[c].requests = 1
             /\ calls[c].result.kind \in FallbackKinds

\* a call whose single request failed has returned a fallback
C9_Witness ==
    \E c \in Calls :
       /\ calls[c].pc = "done"
       /\ calls[c].errType = "RateLimitError"
       /\ calls[c].requests = 1
       /\ calls[c].result.kind = "network"

\* C10: the knowledge base stays the one loaded at construction, and the
\* FAQ result of each call equals the result its question gives when run
\* alone, whatever other calls are in flight or came before.
C10_ReadOnlyAndIndependent ==
    phase = "running" =>
       /\ kb = LoadKB(source)
       /\ \A c \in Calls : Searched(c) => calls[c].kb_answer = ResolveAlone(c)

\* two calls with different questions were inside the search loop together
\* and one of them has come out with a matched answer
C10_Witness ==
    \E c, d \in Calls :
       /\ c # d
       /\ calls[c].question # calls[d].question
       /\ Searched(c) /\ calls[c].best_match # 0
       /\ calls[d].pc = "search" /\ calls[d].i > 1

====
